---- MODULE Spec2Model ----
(***************************************************************************)
(* Job lifecycle of the audio processing service: the upload endpoint,     *)
(* the Bull queue, the worker's processAudioJob, DELETE /job/:jobId and    *)
(* the CleanupService sweep, as a state machine over the two tables        *)
(* (audio_files, jobs), the upload directory and the queue.                *)
(*                                                                         *)
(* Every step of a handler is one database / queue / library call taking   *)
(* effect, followed by the synchronous code up to the next await.          *)
(***************************************************************************)
EXTENDS Integers, Sequences, FiniteSets, TLC

(* ----------------------------- bounds --------------------------------- *)
\* upload requests received in a run of the lifecycle specification
MaxUploads == 1
\* upload requests received in a run of the input-space specification
MaxInputUploads == 1
\* DELETE requests received
MaxDeletes == 1
\* clock ticks, and the hours one tick advances the clock
MaxTicks == 3
TickHours == 12
\* upload requests received in a run of the worker-pool specification
MaxPoolUploads == 2
\* DELETE requests received in a run of the concurrent-DELETE specification
MaxPairDeletes == 2
\* start() and stop() calls on the cleanup service, and runs of its timer's
\* callback
MaxCalls == 3
MaxFires == 1
\* restarts of the server process after a crash
MaxRestarts == 1

(* ------------------------- optional values ---------------------------- *)
\* undefined / null is the empty set, a present value v is {v}
None == {}
Some(x) == {x}
Get(o) == CHOOSE x \in o : TRUE

(* --------------------------- upload input ----------------------------- *)
FileSizeLimit == 100 * 1024 * 1024

allowedMimes ==
    {"audio/mpeg", "audio/mp3", "audio/wav", "audio/wave", "audio/x-wav",
     "audio/flac", "audio/ogg", "audio/vorbis", "audio/m4a", "audio/x-m4a",
     "audio/aac", "audio/webm", "audio/opus", "audio/x-aac", "audio/x-ms-wma"}

\* an extension is the sequence of its characters
allowedExtensions ==
    {<<".", "m", "p", "3">>, <<".", "w", "a", "v">>, <<".", "f", "l", "a", "c">>,
     <<".", "o", "g", "g">>, <<".", "m", "4", "a">>, <<".", "a", "a", "c">>,
     <<".", "w", "e", "b", "m">>, <<".", "o", "p", "u", "s">>, <<".", "w", "m", "a">>}

\* String.prototype.toLowerCase: every upper-case letter is replaced by its
\* lower-case letter, every other character is kept
UpperCase ==
    <<"A", "B", "C", "D", "E", "F", "G", "H", "I", "J", "K", "L", "M",
      "N", "O", "P", "Q", "R", "S", "T", "U", "V", "W", "X", "Y", "Z">>
LowerCase ==
    <<"a", "b", "c", "d", "e", "f", "g", "h", "i", "j", "k", "l", "m",
      "n", "o", "p", "q", "r", "s", "t", "u", "v", "w", "x", "y", "z">>
ToLowerChar(c) ==
    IF \E k \in DOMAIN UpperCase : UpperCase[k] = c
    THEN LowerCase[CHOOSE k \in DOMAIN UpperCase : UpperCase[k] = c]
    ELSE c
ToLowerCase(s) == [k \in DOMAIN s |-> ToLowerChar(s[k])]

\* an original name is <<stem, extension>>; path.extname gives the extension
ExtName(originalname) == originalname[2]

\* a faulty variant of fileFilter: every file is accepted
fileFilter_NoCheck(file) == TRUE

\* multer fileFilter: TRUE when the file is accepted
fileFilter(file) ==
    \/ file.mimetype \in allowedMimes
    \/ ToLowerCase(ExtName(file.originalname)) \in allowedExtensions

\* the outcomes multer can produce for a request's file part: "no_file" (no
\* part named audio), "filter_error" (fileFilter's Error), "LIMIT_FILE_SIZE"
\* (MulterError) or "ok" (req.file set).  A file of exactly the limit is
\* accepted or refused depending on the multer/busboy release installed.
upload(file) ==
    IF file = None THEN {"no_file"}
    ELSE IF ~fileFilter(Get(file)) THEN {"filter_error"}
    ELSE IF Get(file).size > FileSizeLimit THEN {"LIMIT_FILE_SIZE"}
    ELSE IF Get(file).size = FileSizeLimit THEN {"ok", "LIMIT_FILE_SIZE"}
    ELSE {"ok"}

\* parseFloat on the decimal strings the inputs use
parseFloat(s) ==
    CASE s = "0" -> 0
      [] s = "1" -> 1
      [] s = "2" -> 2
      [] s = "3" -> 3

\* JavaScript truthiness of an optional string and of an optional number
TruthyStr(o) == o # None /\ o # Some("")
TruthyNum(o) == o # None /\ o # Some(0)

File(mimetype, stem, ext, size) ==
    [mimetype |-> mimetype, originalname |-> <<stem, ext>>, size |-> size]

GoodFile == File("audio/mpeg", "song", <<".", "m", "p", "3">>, 1)

Files ==
    { GoodFile,
      File("application/octet-stream", "song", <<".", "M", "P", "3">>, 1),
      File("application/octet-stream", "song", <<".", "F", "L", "A", "C">>, 1),
      File("application/octet-stream", "song", <<".", "M", "p", "3">>, 1),
      File("application/octet-stream", "song", <<".", "m", "p", "4">>, 1),
      File("audio/wav", "song", <<".", "b", "i", "n">>, 1),
      File("text/plain", "notes", <<".", "T", "X", "T">>, 1),
      File("text/plain", "notes", <<".", "t", "x", "t">>, FileSizeLimit + 1),
      File("audio/mpeg", "song", <<".", "m", "p", "3">>, FileSizeLimit),
      File("audio/mpeg", "song", <<".", "m", "p", "3">>, FileSizeLimit + 1) }

Request(file, jobType, outputFormat, startTime, endTime) ==
    [file |-> file, jobType |-> jobType, outputFormat |-> outputFormat,
     startTime |-> startTime, endTime |-> endTime]

\* the requests of the lifecycle specification: one job type without and one
\* with an output file
CoreRequests ==
    { Request(Some(GoodFile), None, None, None, None),
      Request(Some(GoodFile), Some("convert"), Some("mp3"), None, None) }

\* the requests of the two-upload specification: conversions, whose jobs have
\* an output file
PairRequests ==
    { Request(Some(GoodFile), Some("convert"), Some("mp3"), None, None) }

\* the requests of the error specification: a conversion, and a conversion
\* with its required parameter left out
ErrorRequests ==
    { Request(Some(GoodFile), Some("convert"), Some("mp3"), None, None),
      Request(Some(GoodFile), Some("convert"), None, None, None) }

\* the requests of the input-space specification
AllRequests ==
    { Request(Some(f), None, None, None, None) : f \in Files }
    \cup { Request(None, None, None, None, None) }
    \cup { Request(Some(GoodFile), Some(t), None, None, None) :
             t \in {"metadata", "analyze", "waveform", "convert", "slice", "transcribe"} }
    \cup { Request(Some(GoodFile), Some("convert"), Some("mp3"), None, None) }
    \cup { Request(Some(GoodFile), Some("slice"), None, Some(s), e) :
             s \in {"0", "1"}, e \in {None, Some("1"), Some("3")} }
    \cup { Request(Some(GoodFile), Some("slice"), None, None, Some("1")) }

(* --------------------------- environment ------------------------------ *)
\* process.env.UPLOAD_DIR (None when unset) and the working directory of the
\* server and worker processes; a directory is the sequence of its segments
\* below the repository's root
Environment(UPLOAD_DIR, cwd) == [UPLOAD_DIR |-> UPLOAD_DIR, cwd |-> cwd]

\* the configuration of the README (started in server/, UPLOAD_DIR=./uploads),
\* the same without UPLOAD_DIR, and a start from the repository's root
\* without UPLOAD_DIR
DocumentedEnv == Environment(Some("uploads"), <<"server">>)
Environments ==
    { DocumentedEnv,
      Environment(None, <<"server">>),
      Environment(None, <<>>) }

\* a relative directory, resolved against the working directory
Resolve(cwd, dir) == cwd \o <<dir>>

\* uploadController.js: process.env.UPLOAD_DIR || './uploads'
uploadDir(e) ==
    Resolve(e.cwd, IF e.UPLOAD_DIR # None /\ e.UPLOAD_DIR # Some("")
                   THEN Get(e.UPLOAD_DIR) ELSE "uploads")

\* the DELETE route: process.env.UPLOAD_DIR || path.join(__dirname, '../../uploads'),
\* with __dirname the directory server/src/routes
RouteUploadDir(e) ==
    IF e.UPLOAD_DIR # None /\ e.UPLOAD_DIR # Some("")
    THEN Resolve(e.cwd, Get(e.UPLOAD_DIR))
    ELSE <<"server", "uploads">>

\* cleanupOldJobs: process.env.UPLOAD_DIR || './uploads'
CleanupUploadDir(e) ==
    Resolve(e.cwd, IF e.UPLOAD_DIR # None /\ e.UPLOAD_DIR # Some("")
                   THEN Get(e.UPLOAD_DIR) ELSE "uploads")

(* ------------------------------ paths --------------------------------- *)
JoinPath(dir, base) == [dir |-> dir, base |-> base]
Dirname(p) == p.dir
Basename(p) == p.base
\* a base name is the sequence of its parts. path.basename(p, path.extname(p))
\* and path.extname(p) of a stored upload, whose base name is the unique suffix
\* followed by the characters of the extension
InputName(p) == p.base[1]
InputExt(p) == Tail(p.base)

(* ------------------------------ state --------------------------------- *)
VARIABLES
    env,             \* the environment the processes were started in
    audioFiles,      \* table audio_files: id -> row
    jobs,            \* table jobs: id -> row
    disk,            \* the paths of the files that exist
    tasks,           \* the Bull queue audio-processing: sequence of tasks
    uploads,         \* POST /api/upload requests, in flight and answered
    deletes,         \* DELETE /api/upload/job/:jobId requests
    worker,          \* each worker process's position in processAudioJob
    ffmpegAvailable, \* each worker process's ffmpegAvailable flag
    ffmpeg,          \* each worker process's FFmpeg instances and startWorker
    sweeps,          \* the calls of cleanupOldJobs, in flight and returned
    now,             \* Date.now(), in milliseconds
    service,         \* the CleanupService object and the timers it installed
    server           \* the server process: "listening" or "down"

vars == <<env, audioFiles, jobs, disk, tasks, uploads, deletes, worker,
          ffmpegAvailable, ffmpeg, sweeps, now, service, server>>

Workers == {"w1"}

(* ------------------------------ upload -------------------------------- *)
Response(status, body) == [status |-> status, body |-> body]

\* a faulty variant of the job row addAudioJob creates: created already PROCESSING
NewJob_Processing(id, audioFileId, jobType) ==
    [id |-> id, audioFileId |-> audioFileId, type |-> jobType,
     status |-> "PROCESSING", progress |-> 0, result |-> None, error |-> None,
     completedAt |-> None]

\* a faulty variant of the job row: it references an audio file that is not there
NewJob_WrongFile(id, audioFileId, jobType) ==
    [id |-> id, audioFileId |-> audioFileId + 1, type |-> jobType,
     status |-> "PENDING", progress |-> 0, result |-> None, error |-> None,
     completedAt |-> None]

\* a faulty variant of the job row: every job is attached to the first audio file
NewJob_FirstFile(id, audioFileId, jobType) ==
    [id |-> id, audioFileId |-> 1, type |-> jobType,
     status |-> "PENDING", progress |-> 0, result |-> None, error |-> None,
     completedAt |-> None]

\* prisma.job.create in addAudioJob, with the columns' defaults
NewJob(id, audioFileId, jobType) ==
    [id |-> id, audioFileId |-> audioFileId, type |-> jobType,
     status |-> "PENDING", progress |-> 0, result |-> None, error |-> None,
     completedAt |-> None]

\* const { jobType = 'metadata' } = req.body
JobTypeOf(req) == IF req.jobType = None THEN "metadata" ELSE Get(req.jobType)

\* a faulty variant of jobParams: a conversion without outputFormat gets mp3
JobParams_DefaultFormat(req) ==
    IF req.jobType = Some("convert")
    THEN [outputFormat |-> IF TruthyStr(req.outputFormat) THEN req.outputFormat ELSE Some("mp3"),
          startTime |-> None, endTime |-> None]
    ELSE [outputFormat |-> None, startTime |-> None, endTime |-> None]

\* jobParams as uploadAudio prepares them
JobParams(req) ==
    LET jobType == JobTypeOf(req) IN
    IF jobType = "convert" /\ TruthyStr(req.outputFormat)
    THEN [outputFormat |-> req.outputFormat, startTime |-> None, endTime |-> None]
    ELSE IF jobType = "slice" /\ TruthyStr(req.startTime) /\ TruthyStr(req.endTime)
    THEN [outputFormat |-> None,
          startTime |-> Some(parseFloat(Get(req.startTime))),
          endTime |-> Some(parseFloat(Get(req.endTime)))]
    ELSE [outputFormat |-> None, startTime |-> None, endTime |-> None]

\* the path multer's diskStorage gives upload number n
StoredPath(n, file) ==
    JoinPath(uploadDir(env), <<ToString(n)>> \o ExtName(file.originalname))

\* multer, the route's error handler and uploadAudio's req.file check
UploadReceive(requests, max) ==
    /\ server = "listening"
    /\ Len(uploads) < max
    /\ \E req \in requests : \E outcome \in upload(req.file) :
        LET n == Len(uploads) + 1
            fresh == [req |-> req, pc |-> "done", path |-> None, audioFile |-> None,
                      job |-> None, res |-> None]
        IN
        CASE outcome = "LIMIT_FILE_SIZE" ->
               /\ uploads' = Append(uploads, [fresh EXCEPT !.res =
                     Some(Response(400, [error |-> "File too large", code |-> "FILE_TOO_LARGE"]))])
               /\ disk' = disk
          [] outcome = "filter_error" ->
               /\ uploads' = Append(uploads, [fresh EXCEPT !.res =
                     Some(Response(400, [error |-> "File upload failed"]))])
               /\ disk' = disk
          [] outcome = "no_file" ->
               /\ uploads' = Append(uploads, [fresh EXCEPT !.res =
                     Some(Response(400, [error |-> "No file uploaded"]))])
               /\ disk' = disk
          [] outcome = "ok" ->
               /\ uploads' = Append(uploads, [fresh EXCEPT !.pc = "create_file",
                     !.path = Some(StoredPath(n, Get(req.file)))])
               /\ disk' = disk \cup {StoredPath(n, Get(req.file))}
    /\ UNCHANGED <<env, server, service, audioFiles, jobs, tasks, deletes, worker, ffmpegAvailable,
                   ffmpeg, sweeps, now>>

\* ids are unique: the next id is the number of rows ever created plus one
NextAudioFileId == Cardinality({u \in DOMAIN uploads : uploads[u].audioFile # None}) + 1
NextJobId == Cardinality({u \in DOMAIN uploads : uploads[u].job # None}) + 1

\* prisma.audioFile.create in uploadAudio
UploadCreateFile(u) ==
    /\ u \in DOMAIN uploads
    /\ uploads[u].pc = "create_file"
    /\ LET id == NextAudioFileId
           p == Get(uploads[u].path)
       IN
       /\ audioFiles' = [f \in DOMAIN audioFiles \cup {id} |->
              IF f = id THEN [id |-> id, filename |-> Basename(p), path |-> p]
              ELSE audioFiles[f]]
       /\ uploads' = [uploads EXCEPT ![u].pc = "create_job", ![u].audioFile = Some(id)]
    /\ UNCHANGED <<env, server, service, jobs, disk, tasks, deletes, worker, ffmpegAvailable,
                   ffmpeg, sweeps, now>>

\* prisma.job.create in addAudioJob
UploadCreateJob(u) ==
    /\ u \in DOMAIN uploads
    /\ uploads[u].pc = "create_job"
    /\ LET id == NextJobId
           row == NewJob(id, Get(uploads[u].audioFile), JobTypeOf(uploads[u].req))
       IN
       /\ jobs' = [j \in DOMAIN jobs \cup {id} |-> IF j = id THEN row ELSE jobs[j]]
       /\ uploads' = [uploads EXCEPT ![u].pc = "enqueue", ![u].job = Some(row)]
    /\ UNCHANGED <<env, server, service, audioFiles, disk, tasks, deletes, worker, ffmpegAvailable,
                   ffmpeg, sweeps, now>>

\* the task addAudioJob hands to audioQueue.add
NewTask(job, params) ==
    [jobId |-> job.id, audioFileId |-> job.audioFileId, jobType |-> job.type,
     outputFormat |-> params.outputFormat, startTime |-> params.startTime,
     endTime |-> params.endTime,
     state |-> "waiting", attemptsMade |-> 0, processed |-> 0, stalledCount |-> 0,
     lock |-> None]

\* the body of the 201 response
Created(audioFileId, job) ==
    Response(201, [message |-> "File uploaded successfully",
                   audioFile |-> [id |-> audioFileId],
                   job |-> [id |-> job.id, type |-> job.type, status |-> job.status]])

\* audioQueue.add resolves, addAudioJob returns the row, uploadAudio answers 201
UploadEnqueue(u) ==
    /\ u \in DOMAIN uploads
    /\ uploads[u].pc = "enqueue"
    /\ LET job == Get(uploads[u].job) IN
       /\ tasks' = Append(tasks, NewTask(job, JobParams(uploads[u].req)))
       /\ uploads' = [uploads EXCEPT ![u].pc = "done",
                         ![u].res = Some(Created(Get(uploads[u].audioFile), job))]
    /\ UNCHANGED <<env, server, service, audioFiles, jobs, disk, deletes, worker, ffmpegAvailable,
                   ffmpeg, sweeps, now>>

\* audioQueue.add rejects (Redis unreachable): addAudioJob rethrows, uploadAudio
\* answers 500
UploadEnqueueFails(u) ==
    /\ u \in DOMAIN uploads
    /\ uploads[u].pc = "enqueue"
    /\ uploads' = [uploads EXCEPT ![u].pc = "done",
                      ![u].res = Some(Response(500, [error |-> "Redis connection error"]))]
    /\ UNCHANGED <<env, server, service, audioFiles, jobs, disk, tasks, deletes, worker,
                   ffmpegAvailable, ffmpeg, sweeps, now>>

(* ------------------------------ queue --------------------------------- *)
\* the attempts option addAudioJob passes to audioQueue.add
attempts == 3

\* Bull retries a failed task while the attempts made, this one included, are
\* fewer than the attempts option
ShouldRetry(attemptsMade) == attemptsMade < attempts

\* a worker process between two tasks; during an attempt, dispatch is the value
\* the switch was entered with, calls the functions processAudioJob called and
\* completedAt the new Date() in the data of the completing update it issued
IdleWorker ==
    [pc |-> "idle", task |-> 0, error |-> None, result |-> None, filePath |-> None,
     dispatch |-> None, calls |-> <<>>, completedAt |-> None]

\* Bull hands a waiting task to a free worker process, which takes the task's
\* lock: the audioQueue.process callback calls processAudioJob(job.data), which
\* issues its first update. The callback itself takes no lock and makes no
\* check: which worker gets a task, and when, is Bull's doing
Deliver(w) ==
    /\ worker[w].pc = "idle"
    /\ \E t \in DOMAIN tasks :
        /\ tasks[t].state = "waiting"
        /\ tasks' = [tasks EXCEPT ![t].state = "active", ![t].processed = @ + 1,
                                  ![t].lock = Some(w)]
        /\ worker' = [worker EXCEPT ![w] = [IdleWorker EXCEPT !.pc = "update_processing", !.task = t]]
    /\ UNCHANGED <<env, server, service, audioFiles, jobs, disk, uploads, deletes, ffmpegAvailable,
                   ffmpeg, sweeps, now>>

(* ------------------------------ FFmpeg -------------------------------- *)
\* the FFmpeg instances of a worker process: first is the one initFFmpeg
\* creates when the module is loaded, second the one startWorker's initFFmpeg
\* creates; each is "none" (not created), "loading", "loaded" or "failed".
\* started tells that startWorker's getJobCounts has resolved
Instances == {"first", "second"}

\* the module has been loaded: initFFmpeg() awaits the first load and
\* startWorker() awaits getJobCounts
LoadedModule == [first |-> "loading", second |-> "none", started |-> FALSE]

\* a worker process whose first load completed before getJobCounts resolved
ReadyModule == [first |-> "loaded", second |-> "none", started |-> TRUE]

\* no process is running
NoModule == [first |-> "none", second |-> "none", started |-> FALSE]

\* the instance the variable ffmpegInstance refers to: the one created last
ffmpegInstance(m) == IF m.second # "none" THEN "second" ELSE "first"

\* the instance's load() has completed, so that its FS and run can be used
IsLoaded(m) == m[ffmpegInstance(m)] = "loaded"

\* initFFmpeg after its await: ffmpegInstance.load() resolves and the flag is
\* set, or it rejects and the catch block clears the flag
InitFFmpeg(w) ==
    /\ \E i \in Instances :
        /\ ffmpeg[w][i] = "loading"
        /\ \/ /\ ffmpeg' = [ffmpeg EXCEPT ![w][i] = "loaded"]
              /\ ffmpegAvailable' = [ffmpegAvailable EXCEPT ![w] = TRUE]
           \/ /\ ffmpeg' = [ffmpeg EXCEPT ![w][i] = "failed"]
              /\ ffmpegAvailable' = [ffmpegAvailable EXCEPT ![w] = FALSE]
    /\ UNCHANGED <<env, server, service, audioFiles, jobs, disk, tasks, uploads, deletes, worker,
                   sweeps, now>>

\* startWorker after its first await: getJobCounts resolves; with the flag
\* false initFFmpeg is called again, which creates a new instance and awaits
\* its load
StartWorker(w) ==
    /\ worker[w].pc # "down"
    /\ ~ffmpeg[w].started
    /\ ffmpeg' = [ffmpeg EXCEPT ![w].started = TRUE,
                                ![w].second = IF ffmpegAvailable[w] THEN "none" ELSE "loading"]
    /\ UNCHANGED <<env, server, service, audioFiles, jobs, disk, tasks, uploads, deletes, worker,
                   ffmpegAvailable, sweeps, now>>

(* ------------------------------ worker -------------------------------- *)
\* JSON.stringify of a result and JSON.parse of the stored text
JSONstringify(result) == [json |-> result]
JSONparse(text) == text.json

\* data of the first prisma.job.update of processAudioJob
Processing(row) == [row EXCEPT !.status = "PROCESSING", !.progress = 10]

\* a faulty variant of the completing update: progress left as it was
Completed_NoProgress(row, result, date) ==
    [row EXCEPT !.status = "COMPLETED", !.result = Some(JSONstringify(result)),
                !.completedAt = Some(date)]

\* data of the completing prisma.job.update
Completed(row, result, date) ==
    [row EXCEPT !.status = "COMPLETED", !.progress = 100,
                !.result = Some(JSONstringify(result)), !.completedAt = Some(date)]

\* a faulty variant of the failing update: a fixed text in place of the message
Failed_Generic(row, message) ==
    [row EXCEPT !.status = "FAILED", !.error = Some("Processing failed")]

\* a faulty variant of the failing update: the status is not written
Failed_NoStatus(row, message) == [row EXCEPT !.error = Some(message)]

\* data of the prisma.job.update in the catch block
Failed(row, message) == [row EXCEPT !.status = "FAILED", !.error = Some(message)]

\* throw: control moves to the catch block with the error
Raise(locals, message) == [locals EXCEPT !.pc = "catch", !.error = Some(message)]
Throw(w, message) == Raise(worker[w], message)

\* a call of one of the processing functions
Call(locals, fn) == [locals EXCEPT !.calls = Append(@, fn)]

\* the first update takes effect (P2025 when the row is gone); findUnique is issued
UpdateProcessing(w) ==
    /\ worker[w].pc = "update_processing"
    /\ LET jobId == tasks[worker[w].task].jobId IN
       IF jobId \in DOMAIN jobs
       THEN /\ jobs' = [jobs EXCEPT ![jobId] = Processing(@)]
            /\ worker' = [worker EXCEPT ![w].pc = "find_file"]
       ELSE /\ jobs' = jobs
            /\ worker' = [worker EXCEPT ![w] = Throw(w, "Record to update not found")]
    /\ UNCHANGED <<env, server, service, audioFiles, disk, tasks, uploads, deletes,
                   ffmpegAvailable, ffmpeg, sweeps, now>>

\* output paths of convertAudio, sliceAudio and generateWaveform
ConvertOutput(inputPath, outputFormat) ==
    JoinPath(Dirname(inputPath), <<InputName(inputPath), "_converted.", outputFormat>>)
SliceOutput(inputPath, startTime, endTime) ==
    JoinPath(Dirname(inputPath),
             <<InputName(inputPath), "_clip_", ToString(startTime), "-", ToString(endTime)>>
                 \o InputExt(inputPath))
WaveformOutput(inputPath) ==
    JoinPath(Dirname(inputPath), <<InputName(inputPath), "_waveform.png">>)

\* if (!startTime || !endTime) in case 'slice'
SliceParamsMissing(startTime, endTime) == ~TruthyNum(startTime) \/ ~TruthyNum(endTime)

\* the error of the guard of convertAudio, sliceAudio and generateWaveform
NotAvailable == "FFmpeg is not available. Please ensure FFmpeg is initialized."

\* the error each of them throws from its catch block (the cause is left out)
ProcessingError(fn) ==
    CASE fn = "convertAudio" -> "Failed to convert audio"
      [] fn = "sliceAudio" -> "Failed to slice audio"
      [] fn = "generateWaveform" -> "Failed to generate waveform"

\* convertAudio, sliceAudio or generateWaveform is called: the guard on the
\* flag, then the input is read and written to the instance's file system,
\* which throws while the instance is not loaded, then run() is awaited
CallFFmpeg(locals, fn, available, loaded) ==
    IF ~available THEN Raise(Call(locals, fn), NotAvailable)
    ELSE IF ~loaded THEN Raise(Call(locals, fn), ProcessingError(fn))
    ELSE [Call(locals, fn) EXCEPT !.pc = "run"]

\* the function the switch calls for a job type
ProcessingFunction(jobType) ==
    CASE jobType = "convert" -> "convertAudio"
      [] jobType = "slice" -> "sliceAudio"
      [] jobType = "waveform" -> "generateWaveform"
      [] OTHER -> "extractMetadata"

\* findUnique resolves; then the synchronous code up to the first await of the
\* selected case: existsSync, the parameter check, the FFmpeg check and the
\* read of the input file
FindFile(w) ==
    /\ worker[w].pc = "find_file"
    /\ LET task == tasks[worker[w].task]
           id == task.audioFileId
       IN
       worker' = [worker EXCEPT ![w] =
         IF id \notin DOMAIN audioFiles THEN Throw(w, "Audio file not found")
         ELSE IF audioFiles[id].path \notin disk THEN Throw(w, "Audio file does not exist")
         ELSE LET here == [worker[w] EXCEPT !.filePath = Some(audioFiles[id].path),
                                            !.dispatch = Some(task.jobType)]
                  available == ffmpegAvailable[w]
                  loaded == IsLoaded(ffmpeg[w])
              IN
           CASE task.jobType = "convert" ->
                  IF ~TruthyStr(task.outputFormat)
                  THEN Raise(here, "Output format is required for conversion")
                  ELSE CallFFmpeg(here, "convertAudio", available, loaded)
             [] task.jobType = "slice" ->
                  IF SliceParamsMissing(task.startTime, task.endTime)
                  THEN Raise(here, "Start and end times are required for slicing")
                  ELSE CallFFmpeg(here, "sliceAudio", available, loaded)
             [] task.jobType = "waveform" ->
                  CallFFmpeg(here, "generateWaveform", available, loaded)
             [] OTHER -> [Call(here, "extractMetadata") EXCEPT !.pc = "extract"]]
    /\ UNCHANGED <<env, server, service, audioFiles, jobs, disk, tasks, uploads, deletes,
                   ffmpegAvailable, ffmpeg, sweeps, now>>

\* what convertAudio, sliceAudio and generateWaveform return
RunResult(task, inputPath) ==
    CASE task.jobType = "convert" ->
           [outputPath |-> ConvertOutput(inputPath, Get(task.outputFormat)),
            outputFormat |-> Get(task.outputFormat)]
      [] task.jobType = "slice" ->
           [outputPath |-> SliceOutput(inputPath, Get(task.startTime), Get(task.endTime)),
            startTime |-> Get(task.startTime), endTime |-> Get(task.endTime),
            duration |-> Get(task.endTime) - Get(task.startTime)]
      [] task.jobType = "waveform" ->
           [outputPath |-> WaveformOutput(inputPath), format |-> "png"]

\* ffmpegInstance.run resolves: the output is written to disk and the
\* completing update is issued; or the library fails and the case rethrows
Run(w) ==
    /\ worker[w].pc = "run"
    /\ LET task == tasks[worker[w].task]
           result == RunResult(task, Get(worker[w].filePath))
       IN
       \/ /\ disk' = disk \cup {result.outputPath}
          /\ worker' = [worker EXCEPT ![w].pc = "update_completed", ![w].result = Some(result),
                                       ![w].completedAt = Some(now)]
       \/ /\ disk' = disk
          /\ worker' = [worker EXCEPT ![w] =
                Throw(w, ProcessingError(ProcessingFunction(task.jobType)))]
    /\ UNCHANGED <<env, server, service, audioFiles, jobs, tasks, uploads, deletes,
                   ffmpegAvailable, ffmpeg, sweeps, now>>

\* results of the metadata, analyze and default cases; probe is getAudioInfo's
\* answer when it was asked and answered
MetadataResult(jobType, filePath, probe) ==
    CASE jobType = "metadata" -> [metadata |-> "tags", ffmpeg |-> probe]
      [] jobType = "analyze" -> [metadata |-> "tags", technical |-> probe, fileInfo |-> filePath]
      [] OTHER -> [metadata |-> "tags"]

\* extractMetadata resolves or rejects (mm.parseFile reads the file)
Extract(w) ==
    /\ worker[w].pc = "extract"
    /\ LET task == tasks[worker[w].task]
           filePath == Get(worker[w].filePath)
       IN
       \/ /\ filePath \in disk
          /\ worker' = [worker EXCEPT ![w] =
               IF task.jobType \in {"metadata", "analyze"} /\ ffmpegAvailable[w]
               THEN [Call(@, "getAudioInfo") EXCEPT !.pc = "probe"]
               ELSE [@ EXCEPT !.pc = "update_completed",
                              !.result = Some(MetadataResult(task.jobType, filePath, None)),
                              !.completedAt = Some(now)]]
       \/ worker' = [worker EXCEPT ![w] = Throw(w, "Metadata extraction error")]
    /\ UNCHANGED <<env, server, service, audioFiles, jobs, disk, tasks, uploads, deletes,
                   ffmpegAvailable, ffmpeg, sweeps, now>>

\* getAudioInfo resolves or rejects; its rejection is caught inside the case
Probe(w) ==
    /\ worker[w].pc = "probe"
    /\ LET task == tasks[worker[w].task]
           filePath == Get(worker[w].filePath)
       IN
       \E probe \in IF filePath \in disk THEN {Some("info"), None} ELSE {None} :
         worker' = [worker EXCEPT ![w].pc = "update_completed",
                       ![w].result = Some(MetadataResult(task.jobType, filePath, probe)),
                       ![w].completedAt = Some(now)]
    /\ UNCHANGED <<env, server, service, audioFiles, jobs, disk, tasks, uploads, deletes,
                   ffmpegAvailable, ffmpeg, sweeps, now>>

\* the completing update takes effect and processAudioJob returns its result
\* to the queue's callback; or the row is gone and the update throws P2025
UpdateCompleted(w) ==
    /\ worker[w].pc = "update_completed"
    /\ LET jobId == tasks[worker[w].task].jobId IN
       IF jobId \in DOMAIN jobs
       THEN /\ jobs' = [jobs EXCEPT ![jobId] = Completed(@, Get(worker[w].result),
                                                               Get(worker[w].completedAt))]
            /\ worker' = [worker EXCEPT ![w].pc = "move_completed"]
       ELSE /\ jobs' = jobs
            /\ worker' = [worker EXCEPT ![w] = Throw(w, "Record to update not found")]
    /\ UNCHANGED <<env, server, service, audioFiles, disk, tasks, uploads, deletes,
                   ffmpegAvailable, ffmpeg, sweeps, now>>

\* the callback's promise has resolved: Bull marks the task completed when the
\* worker process still holds the task's lock, and leaves the task as it is
\* when the lock was lost; the worker process is free for the next task
MoveToCompleted(w) ==
    /\ worker[w].pc = "move_completed"
    /\ LET t == worker[w].task IN
       tasks' = IF tasks[t].lock = Some(w)
                THEN [tasks EXCEPT ![t].state = "completed", ![t].lock = None]
                ELSE tasks
    /\ worker' = [worker EXCEPT ![w] = IdleWorker]
    /\ UNCHANGED <<env, server, service, audioFiles, jobs, disk, uploads, deletes,
                   ffmpegAvailable, ffmpeg, sweeps, now>>

\* the catch block: the failing update takes effect (or throws P2025) and the
\* error leaves processAudioJob
Catch(w) ==
    /\ worker[w].pc = "catch"
    /\ LET jobId == tasks[worker[w].task].jobId IN
       jobs' = IF jobId \in DOMAIN jobs
               THEN [jobs EXCEPT ![jobId] = Failed(@, Get(worker[w].error))]
               ELSE jobs
    /\ worker' = [worker EXCEPT ![w].pc = "move_failed"]
    /\ UNCHANGED <<env, server, service, audioFiles, disk, tasks, uploads, deletes,
                   ffmpegAvailable, ffmpeg, sweeps, now>>

\* the callback's promise has rejected: when the worker process still holds
\* the task's lock, Bull counts the attempt and puts the task back in the queue
\* or, after the last attempt, marks it failed; when the lock was lost Bull
\* leaves the task as it is
MoveToFailed(w) ==
    /\ worker[w].pc = "move_failed"
    /\ LET t == worker[w].task
           made == tasks[t].attemptsMade + 1
       IN
       tasks' = IF tasks[t].lock = Some(w)
                THEN [tasks EXCEPT ![t].attemptsMade = made, ![t].lock = None,
                         ![t].state = IF ShouldRetry(made) THEN "waiting" ELSE "failed"]
                ELSE tasks
    /\ worker' = [worker EXCEPT ![w] = IdleWorker]
    /\ UNCHANGED <<env, server, service, audioFiles, jobs, disk, uploads, deletes,
                   ffmpegAvailable, ffmpeg, sweeps, now>>

(* ------------------------------ delete -------------------------------- *)
\* removal of rows from a table
Without(table, ids) == [k \in DOMAIN table \ ids |-> table[k]]

\* the file a stored result names, as both DELETE and the sweep compute it
\* from their own uploadDir: join(uploadDir, last segment of result.outputPath);
\* None when the row has no result or the result no outputPath
OutputFile(dir, row) ==
    IF row.result = None THEN None
    ELSE LET result == JSONparse(Get(row.result)) IN
         IF "outputPath" \in DOMAIN result
         THEN Some(JoinPath(dir, Basename(result.outputPath)))
         ELSE None

\* the original upload of an audio_files row as DELETE computes it,
\* join(uploadDir, filename)
OriginalFile(dir, audioFile) == JoinPath(dir, audioFile.filename)

NotFound ==
    Response(404, [error |-> "Job not found", code |-> "JOB_NOT_FOUND"])
Deleted(jobId, filesDeleted) ==
    Response(200, [message |-> "Job deleted successfully", jobId |-> jobId,
                   filesDeleted |-> filesDeleted])

\* a request that has been answered: its handler's locals are gone
Answered(jobId, response) ==
    [jobId |-> jobId, pc |-> "done", job |-> None, audioFile |-> None,
     otherJobs |-> {}, filesDeleted |-> {}, res |-> Some(response)]

\* the columns of a job row that DELETE and the sweep read after loading it
Read(row) == [id |-> row.id, audioFileId |-> row.audioFileId, result |-> row.result]

\* a faulty variant of the unlink of the output file: the file is kept
UnlinkOutput_Keep(files, dir, row) == files

\* if (fs.existsSync(filePath)) fs.unlinkSync(filePath) on a row's output file
UnlinkOutput(files, dir, row) == files \ OutputFile(dir, row)

\* findUnique resolves: 404, or the output file and the original upload are
\* unlinked and the sibling query is issued
DeleteReceive(max) ==
    /\ server = "listening"
    /\ Len(deletes) < max
    /\ \E jobId \in 1 .. (NextJobId - 1) :
        LET fresh == Answered(jobId, NotFound) IN
        IF jobId \notin DOMAIN jobs
        THEN /\ deletes' = Append(deletes, fresh)
             /\ disk' = disk
        ELSE LET job == jobs[jobId]
                 audioFile == audioFiles[job.audioFileId]
                 dir == RouteUploadDir(env)
                 gone == (OutputFile(dir, job) \cup {OriginalFile(dir, audioFile)}) \cap disk
             IN
             /\ deletes' = Append(deletes, [fresh EXCEPT !.pc = "find_others",
                               !.res = None, !.job = Some(Read(job)), !.audioFile = Some(audioFile),
                               !.filesDeleted = {Basename(f) : f \in gone}])
             /\ disk' = UnlinkOutput(disk, dir, job) \ {OriginalFile(dir, audioFile)}
    /\ UNCHANGED <<env, server, service, audioFiles, jobs, tasks, uploads, worker, ffmpegAvailable,
                   ffmpeg, sweeps, now>>

\* a DELETE request of a run that receives MaxDeletes of them
DeleteFind == DeleteReceive(MaxDeletes)

\* findMany of the other jobs of the same audio file resolves; job.delete is issued
DeleteFindOthers(d) ==
    /\ d \in DOMAIN deletes
    /\ deletes[d].pc = "find_others"
    /\ deletes' = [deletes EXCEPT ![d].pc = "delete_job",
          ![d].otherJobs = {j \in DOMAIN jobs :
              /\ jobs[j].audioFileId = Get(deletes[d].audioFile).id
              /\ j # deletes[d].jobId}]
    /\ UNCHANGED <<env, server, service, audioFiles, jobs, disk, tasks, uploads, worker,
                   ffmpegAvailable, ffmpeg, sweeps, now>>

\* the audio file row is kept when other jobs use it
KeepAudioFile(otherJobs) == otherJobs # {}

\* job.delete takes effect: P2025 is answered 500 JOB_NOT_FOUND; with siblings
\* the request is answered 200, without them audioFile.delete is issued
DeleteJob(d) ==
    /\ d \in DOMAIN deletes
    /\ deletes[d].pc = "delete_job"
    /\ LET jobId == deletes[d].jobId IN
       IF jobId \notin DOMAIN jobs
       THEN /\ jobs' = jobs
            /\ deletes' = [deletes EXCEPT ![d] = Answered(jobId, Response(500,
                      [error |-> "Job not found. It may have already been deleted.",
                       code |-> "JOB_NOT_FOUND"]))]
       ELSE /\ jobs' = Without(jobs, {jobId})
            /\ deletes' = IF KeepAudioFile(deletes[d].otherJobs)
                          THEN [deletes EXCEPT ![d] =
                                   Answered(jobId, Deleted(jobId, deletes[d].filesDeleted))]
                          ELSE [deletes EXCEPT ![d].pc = "delete_file"]
    /\ UNCHANGED <<env, server, service, audioFiles, disk, tasks, uploads, worker, ffmpegAvailable,
                   ffmpeg, sweeps, now>>

\* audioFile.delete takes effect (ON DELETE CASCADE removes the jobs that still
\* reference the row; a missing row's error is swallowed) and 200 is answered
DeleteAudioFile(d) ==
    /\ d \in DOMAIN deletes
    /\ deletes[d].pc = "delete_file"
    /\ LET id == Get(deletes[d].audioFile).id IN
       /\ audioFiles' = Without(audioFiles, {id})
       /\ jobs' = Without(jobs, {j \in DOMAIN jobs : jobs[j].audioFileId = id})
       /\ deletes' = [deletes EXCEPT ![d] =
             Answered(deletes[d].jobId, Deleted(deletes[d].jobId, deletes[d].filesDeleted))]
    /\ UNCHANGED <<env, server, service, disk, tasks, uploads, worker, ffmpegAvailable, ffmpeg,
                   sweeps, now>>

(* ------------------------------ cleanup ------------------------------- *)
\* new CleanupService(6, 24)
intervalHours == 6
jobAgeHours == 24

MsPerHour == 60 * 60 * 1000

\* a faulty variant of the cutoff: the sweep interval in place of the job age
cutoffDate_Interval(date) == date - intervalHours * MsPerHour

\* new Date(Date.now() - this.jobAgeHours * 60 * 60 * 1000)
cutoffDate(date) == date - jobAgeHours * MsPerHour

\* where: { status: 'COMPLETED', completedAt: { lt: cutoffDate } }
OldJob(row, cutoff) ==
    row.status = "COMPLETED" /\ row.completedAt # None /\ Get(row.completedAt) < cutoff

\* the locals of a call of cleanupOldJobs: pc is "find" or "delete" while the
\* call is in flight, "done" once it has returned ret, "lost" when the server
\* process died under it; the locals of a call that is over are gone. matched
\* is no local of the code: it records, for the time the call is in flight,
\* the ids of the rows that met the where clause when the call was entered
Sweep(pc, ret) ==
    [pc |-> pc, startedAt |-> 0, cutoffDate |-> 0, oldJobs |-> <<>>, i |-> 0,
     deletedCount |-> 0, filesDeleted |-> 0, ret |-> ret, matched |-> {}]

\* what the catch block of cleanupOldJobs returns
SweepError(message) == [jobsDeleted |-> 0, filesDeleted |-> 0, error |-> message]

\* the sequences that list the elements of a set once each
Orderings(S) ==
    {q \in [1 .. Cardinality(S) -> S] : \A x \in S : \E k \in DOMAIN q : q[k] = x}

\* cleanupOldJobs is entered, by start() or by the timer's callback: the
\* cutoff is computed and findMany issued
EnterSweep(date) ==
    [Sweep("find", None) EXCEPT
        !.startedAt = date,
        !.cutoffDate = cutoffDate(date),
        !.matched = {j \in DOMAIN jobs : OldJob(jobs[j], cutoffDate(date))}]

\* findMany resolves: nothing to do, or the first job's output file is
\* unlinked and its job.delete issued
CleanupFind(s) ==
    /\ s \in DOMAIN sweeps
    /\ sweeps[s].pc = "find"
    /\ \E oldJobs \in Orderings({Read(jobs[j]) :
                         j \in {k \in DOMAIN jobs : OldJob(jobs[k], sweeps[s].cutoffDate)}}) :
        IF oldJobs = <<>>
        THEN /\ sweeps' = [sweeps EXCEPT ![s] =
                              Sweep("done", Some([jobsDeleted |-> 0, filesDeleted |-> 0]))]
             /\ disk' = disk
        ELSE LET dir == CleanupUploadDir(env) IN
             /\ sweeps' = [sweeps EXCEPT ![s].pc = "delete", ![s].oldJobs = oldJobs,
                              ![s].i = 1,
                              ![s].filesDeleted =
                                  Cardinality(OutputFile(dir, oldJobs[1]) \cap disk)]
             /\ disk' = UnlinkOutput(disk, dir, oldJobs[1])
    /\ UNCHANGED <<env, server, service, audioFiles, jobs, tasks, uploads, deletes, worker,
                   ffmpegAvailable, ffmpeg, now>>

\* job.delete takes effect: P2025 ends the sweep in its catch block; otherwise
\* the next job's output file is unlinked, or the counts are returned
CleanupDelete(s) ==
    /\ s \in DOMAIN sweeps
    /\ sweeps[s].pc = "delete"
    /\ LET sweep == sweeps[s]
           job == sweep.oldJobs[sweep.i]
           dir == CleanupUploadDir(env)
       IN
       IF job.id \notin DOMAIN jobs
       THEN /\ jobs' = jobs
            /\ disk' = disk
            /\ sweeps' = [sweeps EXCEPT ![s] =
                  Sweep("done", Some(SweepError("Record to delete does not exist.")))]
       ELSE /\ jobs' = Without(jobs, {job.id})
            /\ IF sweep.i < Len(sweep.oldJobs)
               THEN LET next == sweep.oldJobs[sweep.i + 1] IN
                    /\ disk' = UnlinkOutput(disk, dir, next)
                    /\ sweeps' = [sweeps EXCEPT ![s].i = @ + 1, ![s].deletedCount = @ + 1,
                          ![s].filesDeleted = @ + Cardinality(OutputFile(dir, next) \cap disk)]
               ELSE /\ disk' = disk
                    /\ sweeps' = [sweeps EXCEPT ![s] =
                          Sweep("done", Some([jobsDeleted |-> sweep.deletedCount + 1,
                                              filesDeleted |-> sweep.filesDeleted]))]
    /\ UNCHANGED <<env, server, service, audioFiles, tasks, uploads, deletes, worker,
                   ffmpegAvailable, ffmpeg, now>>

\* time passes: Date.now() advances, whatever the processes are doing
Tick ==
    /\ now < MaxTicks * TickHours * MsPerHour
    /\ now' = now + TickHours * MsPerHour
    /\ UNCHANGED <<env, server, service, audioFiles, jobs, disk, tasks, uploads, deletes,
                   worker, ffmpegAvailable, ffmpeg, sweeps>>

(* ----------------------- cleanup service timer ------------------------ *)
\* the service after its constructor: intervalId null. timers are the
\* intervals installed by setInterval and not cleared, created the setInterval
\* calls so far, fired the runs of the timer's callback, calls the start() and
\* stop() calls made, boot the server processes that ran before this one, due
\* the time from which each installed interval's next run is due
NewService ==
    [intervalId |-> None, timers |-> {}, created |-> 0, fired |-> 0, calls |-> <<>>,
     boot |-> 0, due |-> <<>>]

\* a faulty variant of the test in start(): the service never counts as running
AlreadyRunning_Never(s) == FALSE

\* if (this.intervalId) in start()
AlreadyRunning(s) == s.intervalId # None

\* this.intervalId = setInterval(..., this.intervalHours * 60 * 60 * 1000) in
\* start(), called at date
SetInterval(s, date) ==
    [s EXCEPT !.intervalId = Some(s.created + 1),
              !.timers = @ \cup {s.created + 1},
              !.due = ((s.created + 1) :> (date + intervalHours * MsPerHour)) @@ @,
              !.created = @ + 1]

\* start(): returns at once when running; otherwise calls cleanupOldJobs and
\* installs the interval, whatever sweeps are in flight
ServiceStart ==
    /\ server = "listening"
    /\ Len(service.calls) < MaxCalls
    /\ IF AlreadyRunning(service)
       THEN /\ service' = [service EXCEPT !.calls = Append(@, "start")]
            /\ sweeps' = sweeps
       ELSE /\ sweeps' = Append(sweeps, EnterSweep(now))
            /\ service' = [SetInterval(service, now) EXCEPT !.calls = Append(@, "start")]
    /\ UNCHANGED <<env, server, audioFiles, jobs, disk, tasks, uploads, deletes, worker,
                   ffmpegAvailable, ffmpeg, now>>

\* stop(): clearInterval and intervalId = null when running, nothing otherwise
ServiceStop ==
    /\ server = "listening"
    /\ Len(service.calls) < MaxCalls
    /\ service' = IF service.intervalId # None
                  THEN [service EXCEPT !.timers = @ \ service.intervalId,
                                       !.due = [t \in DOMAIN @ \ service.intervalId |-> @[t]],
                                       !.intervalId = None,
                                       !.calls = Append(@, "stop")]
                  ELSE [service EXCEPT !.calls = Append(@, "stop")]
    /\ UNCHANGED <<env, server, audioFiles, jobs, disk, tasks, uploads, deletes, worker,
                   ffmpegAvailable, ffmpeg, sweeps, now>>

\* an installed interval runs its callback, not before its delay has passed:
\* cleanupOldJobs is called, whatever sweeps are in flight, and the next run
\* is due one delay after this one
TimerFire ==
    /\ service.fired < MaxFires
    /\ \E t \in service.timers :
          /\ now >= service.due[t]
          /\ service' = [service EXCEPT !.fired = @ + 1,
                                        !.due[t] = now + intervalHours * MsPerHour]
    /\ sweeps' = Append(sweeps, EnterSweep(now))
    /\ UNCHANGED <<env, server, audioFiles, jobs, disk, tasks, uploads, deletes, worker,
                   ffmpegAvailable, ffmpeg, now>>

(* ------------------------------ crashes ------------------------------- *)
\* Bull's maxStalledCount setting; the queue is created with the default
maxStalledCount == 1

\* a worker process that is not running
Down == [IdleWorker EXCEPT !.pc = "down"]

\* the worker process dies: its locals and its FFmpeg instances are lost, a
\* task it was working on stays active in the queue
WorkerCrash(w) ==
    /\ worker[w].pc # "down"
    /\ worker' = [worker EXCEPT ![w] = Down]
    /\ ffmpegAvailable' = [ffmpegAvailable EXCEPT ![w] = FALSE]
    /\ ffmpeg' = [ffmpeg EXCEPT ![w] = NoModule]
    /\ UNCHANGED <<env, server, service, audioFiles, jobs, disk, tasks, uploads, deletes, sweeps,
                   now>>

\* startWorker's getJobCounts rejects (Redis unreachable): the catch block
\* calls process.exit(1)
StartWorkerFails(w) ==
    /\ worker[w].pc # "down"
    /\ ~ffmpeg[w].started
    /\ worker' = [worker EXCEPT ![w] = Down]
    /\ ffmpegAvailable' = [ffmpegAvailable EXCEPT ![w] = FALSE]
    /\ ffmpeg' = [ffmpeg EXCEPT ![w] = NoModule]
    /\ UNCHANGED <<env, server, service, audioFiles, jobs, disk, tasks, uploads, deletes, sweeps,
                   now>>

\* a faulty variant of the restart: a watchdog fails the jobs left PROCESSING
WorkerRestart_Reconcile(w) ==
    /\ worker[w].pc = "down"
    /\ worker' = [worker EXCEPT ![w] = IdleWorker]
    /\ ffmpeg' = [ffmpeg EXCEPT ![w] = LoadedModule]
    /\ jobs' = [j \in DOMAIN jobs |->
                  IF jobs[j].status = "PROCESSING"
                  THEN Failed(jobs[j], "Worker restarted") ELSE jobs[j]]
    /\ UNCHANGED <<env, server, service, audioFiles, disk, tasks, uploads, deletes,
                   ffmpegAvailable, sweeps, now>>

\* the worker process is started again: the module is loaded, which touches
\* no row and no task
WorkerRestart(w) ==
    /\ worker[w].pc = "down"
    /\ worker' = [worker EXCEPT ![w] = IdleWorker]
    /\ ffmpeg' = [ffmpeg EXCEPT ![w] = LoadedModule]
    /\ UNCHANGED <<env, server, service, audioFiles, jobs, disk, tasks, uploads, deletes,
                   ffmpegAvailable, sweeps, now>>

\* the stalled-task check a running worker process's queue performs: an active
\* task whose lock has expired goes back to waiting, or is marked failed once
\* it stalled more than maxStalledCount times; processAudioJob is not called.
\* A lock expires when its holder died, and also when its holder, still inside
\* the attempt, did not renew it in time (its event loop was busy, or Redis
\* did not answer): the attempt of such a holder goes on
Stalled(t) ==
    /\ \E w \in DOMAIN worker : worker[w].pc # "down"
    /\ t \in DOMAIN tasks
    /\ tasks[t].state = "active"
    /\ tasks' = [tasks EXCEPT ![t].stalledCount = @ + 1,
                    ![t].lock = None,
                    ![t].state = IF tasks[t].stalledCount + 1 > maxStalledCount
                                 THEN "failed" ELSE "waiting"]
    /\ UNCHANGED <<env, server, service, audioFiles, jobs, disk, uploads, deletes, worker,
                   ffmpegAvailable, ffmpeg, sweeps, now>>

\* the server process dies: the locals of its handlers and of its sweeps are
\* lost with its CleanupService and the timers, the requests in flight are
\* never answered, and no request is served until it listens again
ServerCrash ==
    /\ server = "listening"
    /\ service.boot < MaxRestarts
    /\ server' = "down"
    /\ sweeps' = [s \in DOMAIN sweeps |->
                    IF sweeps[s].pc \in {"find", "delete"}
                    THEN Sweep("lost", None) ELSE sweeps[s]]
    /\ uploads' = [u \in DOMAIN uploads |-> [uploads[u] EXCEPT !.pc = "done"]]
    /\ deletes' = [d \in DOMAIN deletes |-> [deletes[d] EXCEPT !.pc = "done"]]
    /\ service' = [NewService EXCEPT !.boot = service.boot]
    /\ UNCHANGED <<env, audioFiles, jobs, disk, tasks, worker, ffmpegAvailable, ffmpeg,
                   now>>

\* index.js is started again: a new CleanupService is constructed, startServer
\* gets through its awaits and app.listen, and the listen callback calls
\* start(), which calls cleanupOldJobs and installs the interval
ServerStart ==
    /\ server = "down"
    /\ server' = "listening"
    /\ sweeps' = Append(sweeps, EnterSweep(now))
    /\ service' = [SetInterval(NewService, now) EXCEPT !.calls = <<"start">>,
                                                  !.boot = service.boot + 1]
    /\ UNCHANGED <<env, audioFiles, jobs, disk, tasks, uploads, deletes, worker,
                   ffmpegAvailable, ffmpeg, now>>

(* -------------------------- specifications ---------------------------- *)
\* the processes have been started in one of the environments envs: the
\* tables, the upload directory and the queue are empty, the worker processes
\* ws have loaded their module and are in the FFmpeg state module, and the
\* server's listen callback has called start(), which entered the first sweep
\* and installed the interval
InitIn(envs, ws, module) ==
    /\ env \in envs
    /\ audioFiles = <<>>
    /\ jobs = <<>>
    /\ disk = {}
    /\ tasks = <<>>
    /\ uploads = <<>>
    /\ deletes = <<>>
    /\ worker = [w \in ws |-> IdleWorker]
    /\ ffmpegAvailable = [w \in ws |-> IsLoaded(module)]
    /\ ffmpeg = [w \in ws |-> module]
    /\ now = 0
    /\ sweeps = <<EnterSweep(0)>>
    /\ service = [SetInterval(NewService, 0) EXCEPT !.calls = <<"start">>]
    /\ server = "listening"

Init == InitIn(Environments, Workers, LoadedModule)

\* the documented environment, with a worker process that has loaded its module
InitLoaded == InitIn({DocumentedEnv}, Workers, LoadedModule)

\* the documented environment, with a worker process that has come up
InitReady == InitIn({DocumentedEnv}, Workers, ReadyModule)

\* the steps of the upload handler after the receipt of a request
UploadSteps ==
    \E u \in DOMAIN uploads :
      UploadCreateFile(u) \/ UploadCreateJob(u) \/ UploadEnqueue(u) \/ UploadEnqueueFails(u)

\* the queue's delivery and the steps of an attempt
AttemptSteps(w) ==
    \/ Deliver(w) \/ UpdateProcessing(w) \/ FindFile(w) \/ Run(w) \/ Extract(w)
    \/ Probe(w) \/ UpdateCompleted(w) \/ MoveToCompleted(w) \/ Catch(w) \/ MoveToFailed(w)

\* the queue's delivery and the steps of an attempt on a conversion, which
\* calls neither extractMetadata nor getAudioInfo
ConvertSteps(w) ==
    \/ Deliver(w) \/ UpdateProcessing(w) \/ FindFile(w) \/ Run(w)
    \/ UpdateCompleted(w) \/ MoveToCompleted(w) \/ Catch(w) \/ MoveToFailed(w)

\* a worker process: its start and its attempts
WorkerSteps(w) == InitFFmpeg(w) \/ StartWorker(w) \/ AttemptSteps(w)

DeleteSteps ==
    \/ DeleteFind
    \/ \E d \in DOMAIN deletes : DeleteFindOthers(d) \/ DeleteJob(d) \/ DeleteAudioFile(d)

\* the steps of the calls of cleanupOldJobs that are in flight
SweepSteps == \E s \in DOMAIN sweeps : CleanupFind(s) \/ CleanupDelete(s)

\* the same where the clock stands still: no row is ever older than a cutoff,
\* so that no call gets past its findMany
SweepFind == \E s \in DOMAIN sweeps : CleanupFind(s)

\* the cleanup service of a listening server: the runs of the interval's
\* callback and the steps of the calls of cleanupOldJobs
CleanupSteps == TimerFire \/ SweepSteps

\* Bull's stalled-task check
StalledSteps == \E t \in DOMAIN tasks : Stalled(t)

\* the lifecycle specification: uploads, the worker, the queue's stalled-task
\* check, DELETE requests and the start-up sweep
Next ==
    \/ UploadReceive(CoreRequests, MaxUploads)
    \/ UploadSteps
    \/ \E w \in Workers : WorkerSteps(w)
    \/ StalledSteps
    \/ DeleteSteps
    \/ SweepFind
Spec == Init /\ [][Next]_vars

\* the cleanup specification: uploads, the worker, the clock and the cleanup
\* service
NextCleanup ==
    \/ UploadReceive(CoreRequests, MaxUploads)
    \/ UploadSteps
    \/ \E w \in Workers : WorkerSteps(w)
    \/ CleanupSteps
    \/ Tick
SpecCleanup == Init /\ [][NextCleanup]_vars

\* the input-space specification: every kind of request, and the worker
NextInputs ==
    \/ UploadReceive(AllRequests, MaxInputUploads)
    \/ UploadSteps
    \/ \E w \in Workers : WorkerSteps(w)
    \/ SweepFind
SpecInputs == Init /\ [][NextInputs]_vars

\* the full specification: uploads, the worker, DELETE requests, the clock and
\* the cleanup service
NextAll ==
    \/ UploadReceive(CoreRequests, MaxUploads)
    \/ UploadSteps
    \/ \E w \in Workers : WorkerSteps(w)
    \/ DeleteSteps
    \/ CleanupSteps
    \/ Tick
SpecAll == Init /\ [][NextAll]_vars

\* the progress specification: the input-space specification in which Bull
\* keeps handing waiting tasks to the running worker process and every await
\* of processAudioJob returns: weak fairness on the delivery and on the steps
\* of an attempt
SpecLive == SpecInputs /\ \A w \in Workers : WF_vars(AttemptSteps(w))

\* the concurrent-DELETE specification: two DELETE requests next to the
\* upload, the worker, the clock and the cleanup service
NextDeletes ==
    \/ UploadReceive(PairRequests, MaxUploads)
    \/ UploadSteps
    \/ \E w \in Workers : ConvertSteps(w)
    \/ DeleteReceive(MaxPairDeletes)
    \/ \E d \in DOMAIN deletes : DeleteFindOthers(d) \/ DeleteJob(d) \/ DeleteAudioFile(d)
    \/ CleanupSteps
    \/ Tick
SpecDeletes == InitReady /\ [][NextDeletes]_vars

\* the service specification: the cleanup specification with calls of start()
\* and stop() after the one of the listen callback
NextService ==
    \/ UploadReceive(CoreRequests, MaxUploads)
    \/ UploadSteps
    \/ \E w \in Workers : WorkerSteps(w)
    \/ SweepSteps
    \/ Tick
    \/ ServiceStart
    \/ ServiceStop
    \/ TimerFire
SpecService == Init /\ [][NextService]_vars

\* the full specification with two uploads of conversions, so that two jobs and two audio
\* files coexist under DELETE requests and the sweep
NextAllPair ==
    \/ UploadReceive(PairRequests, MaxPoolUploads)
    \/ UploadSteps
    \/ \E w \in Workers : ConvertSteps(w)
    \/ DeleteSteps
    \/ CleanupSteps
    \/ Tick
SpecAllPair == InitReady /\ [][NextAllPair]_vars

\* the crash specification: the cleanup specification with crashes and
\* restarts of the worker process and of the server process
CrashSteps ==
    \/ \E w \in Workers : WorkerCrash(w) \/ StartWorkerFails(w) \/ WorkerRestart(w)
    \/ StalledSteps
    \/ ServerCrash
    \/ ServerStart
NextCrash ==
    \/ UploadReceive(PairRequests, MaxUploads)
    \/ UploadSteps
    \/ \E w \in Workers : InitFFmpeg(w) \/ StartWorker(w) \/ ConvertSteps(w)
    \/ CleanupSteps
    \/ Tick
    \/ CrashSteps
SpecCrash == InitLoaded /\ [][NextCrash]_vars

\* the error specification: two uploads, of which one may lack a parameter,
\* next to the worker, a DELETE request and the start-up sweep
NextErrors ==
    \/ UploadReceive(ErrorRequests, MaxPoolUploads)
    \/ UploadSteps
    \/ \E w \in Workers : InitFFmpeg(w) \/ StartWorker(w) \/ ConvertSteps(w)
    \/ DeleteSteps
    \/ SweepFind
SpecErrors == InitLoaded /\ [][NextErrors]_vars

\* the worker-pool specification: two worker processes consume the queue
WorkerPool == {"w1", "w2"}
InitPool == InitIn({DocumentedEnv}, WorkerPool, ReadyModule)
NextPool ==
    \/ UploadReceive(PairRequests, MaxPoolUploads)
    \/ UploadSteps
    \/ \E w \in WorkerPool : ConvertSteps(w)
    \/ StalledSteps
    \/ SweepFind
SpecPool == InitPool /\ [][NextPool]_vars

(* ------------------------------ claims -------------------------------- *)
Terminal == {"COMPLETED", "FAILED"}

\* the files named by the outputPath of a row's result
OutputPaths(row) ==
    IF row.result = None THEN {}
    ELSE IF "outputPath" \in DOMAIN JSONparse(Get(row.result))
         THEN {JSONparse(Get(row.result)).outputPath}
         ELSE {}


\* C1 (as claimed): every step leaves a job's status alone or moves it
\* PENDING -> PROCESSING or PROCESSING -> COMPLETED / FAILED; in particular no
\* step changes a COMPLETED or FAILED status, a queue retry included.
C1_StatusMonotonic ==
    [][\A j \in DOMAIN jobs \cap DOMAIN jobs' :
          \/ jobs'[j].status = jobs[j].status
          \/ jobs[j].status = "PENDING" /\ jobs'[j].status = "PROCESSING"
          \/ jobs[j].status = "PROCESSING" /\ jobs'[j].status \in Terminal]_vars

\* C2 (as claimed): in every state a job's result is set only when its status
\* is COMPLETED and its error only when its status is FAILED.
C2_ResultErrorMatchStatus ==
    \A j \in DOMAIN jobs :
        /\ jobs[j].result # None => jobs[j].status = "COMPLETED"
        /\ jobs[j].error # None => jobs[j].status = "FAILED"

\* C3: an upload answered 201 created its job row, PENDING and referencing the
\* audio file row it created, before it answered, and the response reports
\* that row's id with status PENDING; while the response is still to be sent
\* the row is in the table as created.
C3_JobPendingBeforeResponse ==
    \A u \in DOMAIN uploads :
        /\ (uploads[u].res # None /\ Get(uploads[u].res).status = 201) =>
              /\ uploads[u].job # None
              /\ uploads[u].audioFile # None
              /\ Get(uploads[u].job).status = "PENDING"
              /\ Get(uploads[u].job).audioFileId = Get(uploads[u].audioFile)
              /\ Get(uploads[u].res).body.audioFile.id = Get(uploads[u].audioFile)
              /\ Get(uploads[u].res).body.job.id = Get(uploads[u].job).id
              /\ Get(uploads[u].res).body.job.status = "PENDING"
        /\ uploads[u].pc = "enqueue" =>
              /\ uploads[u].res = None
              /\ Get(uploads[u].job).id \in DOMAIN jobs
              /\ jobs[Get(uploads[u].job).id] = Get(uploads[u].job)
              /\ jobs[Get(uploads[u].job).id].status = "PENDING"
              /\ Get(uploads[u].job).audioFileId \in DOMAIN audioFiles

C3_Witness ==
    \E u \in DOMAIN uploads :
        /\ uploads[u].res # None
        /\ Get(uploads[u].res).status = 201
        /\ Get(uploads[u].res).body.job.id \in DOMAIN jobs

\* C4 (as claimed): the step that answers a DELETE with 200 leaves no row of
\* that job, no file named by the outputPath of the result the handler loaded,
\* and no audio file row exactly when the handler found no other job
\* referencing it; and the job of an answered DELETE stays gone.
C4_DeleteRemoves ==
    [][/\ \A d \in DOMAIN deletes :
            (/\ deletes[d].pc # "done"
             /\ deletes'[d].res # None
             /\ Get(deletes'[d].res).status = 200) =>
                /\ deletes[d].jobId \notin DOMAIN jobs'
                /\ OutputPaths(Get(deletes[d].job)) \cap disk' = {}
                /\ (Get(deletes[d].job).audioFileId \notin DOMAIN audioFiles')
                      <=> (deletes[d].otherJobs = {})
       /\ \A d \in DOMAIN deletes :
            (deletes[d].res # None /\ Get(deletes[d].res).status = 200) =>
                deletes[d].jobId \notin DOMAIN jobs']_vars

ExternalFailures ==
    {"FFmpeg is not available. Please ensure FFmpeg is initialized.",
     "Failed to slice audio", "Metadata extraction error",
     "Audio file not found", "Audio file does not exist", "Record to update not found"}

\* C6 (as claimed): once the queue is done with the task of a slice upload
\* with startTime=0 and endTime=1, and nothing outside the request failed, the
\* job is COMPLETED with result.duration = 1.
C6_SliceZeroToOneCompletes ==
    \A u \in DOMAIN uploads : \A t \in DOMAIN tasks :
        (/\ uploads[u].req.jobType = Some("slice")
         /\ uploads[u].req.startTime = Some("0")
         /\ uploads[u].req.endTime = Some("1")
         /\ uploads[u].job # None
         /\ tasks[t].jobId = Get(uploads[u].job).id
         /\ tasks[t].state \in {"completed", "failed"}
         /\ tasks[t].jobId \in DOMAIN jobs
         /\ jobs[tasks[t].jobId].error \cap ExternalFailures = {}) =>
            /\ jobs[tasks[t].jobId].status = "COMPLETED"
            /\ jobs[tasks[t].jobId].result # None
            /\ JSONparse(Get(jobs[tasks[t].jobId].result)).duration = 1

\* C7: in every state a COMPLETED job has progress 100, a result and a
\* completedAt.
C7_CompletedShape ==
    \A j \in DOMAIN jobs :
        jobs[j].status = "COMPLETED" =>
            /\ jobs[j].progress = 100
            /\ jobs[j].result # None
            /\ jobs[j].completedAt # None

C7_Witness == \E j \in DOMAIN jobs : jobs[j].status = "COMPLETED"

\* C8 (as claimed): in every state a FAILED job has an error message and no
\* completedAt.
C8_FailedShape ==
    \A j \in DOMAIN jobs :
        jobs[j].status = "FAILED" =>
            /\ jobs[j].error # None
            /\ Get(jobs[j].error) # ""
            /\ jobs[j].completedAt = None

\* C9 (as claimed): in every state processAudioJob has been started at most 3
\* times for each task, and a task that failed 3 times is marked failed, which
\* no delivery follows.
C9_AtMostThreeAttempts ==
    \A t \in DOMAIN tasks :
        /\ tasks[t].processed <= 3
        /\ tasks[t].attemptsMade >= 3 => tasks[t].state = "failed"

\* a file the upload filter must refuse, and a file over the size limit
Disallowed(file) ==
    /\ file.mimetype \notin allowedMimes
    /\ ToLowerCase(file.originalname[2]) \notin allowedExtensions
TooLarge(file) == file.size > 100 * 1024 * 1024

\* C10: an upload whose file is disallowed by type and extension, or larger
\* than 100MB, is answered 400 with a JSON body naming the error, and created
\* no audio file row, no job row and no task; every row and task there is
\* belongs to an upload whose file was neither.
C10_InvalidUploadRejected ==
    /\ \A u \in DOMAIN uploads :
         (uploads[u].req.file # None
            /\ (Disallowed(Get(uploads[u].req.file)) \/ TooLarge(Get(uploads[u].req.file)))) =>
              /\ uploads[u].res # None
              /\ Get(uploads[u].res).status = 400
              /\ "error" \in DOMAIN Get(uploads[u].res).body
              /\ uploads[u].audioFile = None
              /\ uploads[u].job = None
    /\ \A f \in DOMAIN audioFiles : \E u \in DOMAIN uploads :
         /\ uploads[u].audioFile = Some(f)
         /\ ~Disallowed(Get(uploads[u].req.file)) /\ ~TooLarge(Get(uploads[u].req.file))
    /\ \A j \in DOMAIN jobs : \E u \in DOMAIN uploads :
         /\ uploads[u].job # None /\ Get(uploads[u].job).id = j
         /\ ~Disallowed(Get(uploads[u].req.file)) /\ ~TooLarge(Get(uploads[u].req.file))
    /\ \A t \in DOMAIN tasks : \E u \in DOMAIN uploads :
         /\ uploads[u].job # None /\ Get(uploads[u].job).id = tasks[t].jobId
         /\ ~Disallowed(Get(uploads[u].req.file)) /\ ~TooLarge(Get(uploads[u].req.file))

\* a refused upload of each kind
C10_Witness ==
    \E u \in DOMAIN uploads :
        /\ uploads[u].req.file # None
        /\ Disallowed(Get(uploads[u].req.file)) \/ TooLarge(Get(uploads[u].req.file))
        /\ uploads[u].res # None
        /\ Get(uploads[u].res).status = 400

\* C11: an error raised in an attempt takes the worker to the catch block and
\* changes no row and no response; the catch block's update leaves the job's
\* row (when the row still exists) FAILED with the error's message as its
\* error, every other job row as it was, and every HTTP response as it was;
\* and an attempt that raised an error ends only after that update, with the
\* row (when it still exists) FAILED with that message.
C11_ErrorsRecordedOnJob ==
    [][\A w \in DOMAIN worker :
          /\ (worker[w].error = None /\ worker'[w].error # None) =>
                /\ worker'[w].pc = "catch"
                /\ \A j \in DOMAIN jobs : j # tasks[worker[w].task].jobId =>
                      j \in DOMAIN jobs' /\ jobs'[j] = jobs[j]
                /\ uploads' = uploads /\ deletes' = deletes
          /\ (worker[w].pc = "catch" /\ worker'[w].pc = "move_failed") =>
                LET jobId == tasks[worker[w].task].jobId IN
                /\ jobId \in DOMAIN jobs =>
                      /\ jobId \in DOMAIN jobs'
                      /\ jobs'[jobId].status = "FAILED"
                      /\ jobs'[jobId].error = worker[w].error
                /\ \A j \in DOMAIN jobs : j # jobId =>
                      j \in DOMAIN jobs' /\ jobs'[j] = jobs[j]
                /\ uploads' = uploads /\ deletes' = deletes
          /\ (worker[w].pc # "idle" /\ worker'[w].pc = "idle" /\ worker[w].error # None) =>
                LET jobId == tasks[worker[w].task].jobId IN
                /\ worker[w].pc = "move_failed"
                /\ jobs' = jobs
                /\ uploads' = uploads /\ deletes' = deletes
                /\ jobId \in DOMAIN jobs =>
                      /\ jobs[jobId].status = "FAILED"
                      /\ jobs[jobId].error = worker[w].error]_vars

\* the attempts on a conversion uploaded without outputFormat have failed and
\* the failure is on its row, after the upload was answered 201, next to the
\* row of another upload's job, which is COMPLETED
C11_Witness ==
    \E j, k \in DOMAIN jobs : \E u \in DOMAIN uploads :
        /\ j # k
        /\ jobs[j].status = "FAILED"
        /\ jobs[j].error = Some("Output format is required for conversion")
        /\ jobs[k].status = "COMPLETED"
        /\ jobs[k].error = None
        /\ \A w \in DOMAIN worker : worker[w].pc = "idle"
        /\ uploads[u].res = Some(Created(jobs[j].audioFileId, NewJob(j, jobs[j].audioFileId, jobs[j].type)))

\* a valid file sent with jobType=slice and no startTime or no endTime, or with
\* jobType=convert and no outputFormat, and the message the worker fails it with
LacksParameter(req) ==
    /\ req.file = Some(GoodFile)
    /\ \/ req.jobType = Some("slice") /\ (req.startTime = None \/ req.endTime = None)
       \/ req.jobType = Some("convert") /\ req.outputFormat = None
ParameterMessage(req) ==
    IF req.jobType = Some("slice") THEN "Start and end times are required for slicing"
    ELSE "Output format is required for conversion"

\* C12: an upload that lacks a required parameter is not refused: once its
\* handler has come to the response it is answered 201 with a PENDING job
\* (500 only when the queue cannot be reached); no operation is ever run for
\* it, its job is never COMPLETED, every failure recorded on its row is the
\* worker's missing-parameter message, and once the queue is done with its
\* task the job is FAILED with that message.
C12_MissingParameterFailsInWorker ==
    \A u \in DOMAIN uploads :
        LacksParameter(uploads[u].req) =>
            /\ uploads[u].pc = "done" =>
                  /\ uploads[u].res # None
                  /\ uploads[u].job # None
                  /\ \/ /\ Get(uploads[u].res).status = 201
                        /\ Get(uploads[u].res).body.job.status = "PENDING"
                        /\ \E t \in DOMAIN tasks : tasks[t].jobId = Get(uploads[u].job).id
                     \/ /\ Get(uploads[u].res).status = 500
                        /\ \A t \in DOMAIN tasks : tasks[t].jobId # Get(uploads[u].job).id
            /\ uploads[u].job # None =>
                  LET j == Get(uploads[u].job).id IN
                  /\ j \in DOMAIN jobs
                  /\ jobs[j].status # "COMPLETED"
                  /\ jobs[j].result = None
                  /\ jobs[j].error \subseteq {ParameterMessage(uploads[u].req)}
                  /\ \A w \in DOMAIN worker :
                        (worker[w].pc # "idle" /\ tasks[worker[w].task].jobId = j) =>
                            /\ worker[w].pc \in {"update_processing", "find_file", "catch",
                                                 "move_failed"}
                            /\ worker[w].calls = <<>>
                  /\ \A t \in DOMAIN tasks :
                        tasks[t].jobId = j =>
                            /\ tasks[t].state # "completed"
                            /\ tasks[t].state = "failed" =>
                                  /\ jobs[j].status = "FAILED"
                                  /\ jobs[j].error = Some(ParameterMessage(uploads[u].req))

\* a slice upload with startTime and without endTime, answered 201 and failed
\* by the worker on each of its attempts
C12_Witness ==
    \E u \in DOMAIN uploads : \E t \in DOMAIN tasks :
        /\ uploads[u].req.jobType = Some("slice")
        /\ uploads[u].req.startTime # None
        /\ uploads[u].req.endTime = None
        /\ uploads[u].res # None
        /\ Get(uploads[u].res).status = 201
        /\ tasks[t].jobId = Get(uploads[u].job).id
        /\ tasks[t].state = "failed"
        /\ jobs[tasks[t].jobId].status = "FAILED"
        /\ jobs[tasks[t].jobId].error = Some("Start and end times are required for slicing")

\* C13: in every state every job row's audioFileId is the id of an audio file
\* row.
C13_JobReferencesAudioFile ==
    \A j \in DOMAIN jobs :
        /\ jobs[j].audioFileId \in DOMAIN audioFiles
        /\ audioFiles[jobs[j].audioFileId].id = jobs[j].audioFileId

\* a completed job that a DELETE request and a sweep are both about to delete
C13_Witness ==
    \E j \in DOMAIN jobs : \E d \in DOMAIN deletes :
        /\ jobs[j].status = "COMPLETED"
        /\ jobs[j].audioFileId \in DOMAIN audioFiles
        /\ deletes[d].jobId = j
        /\ deletes[d].pc = "delete_job"
        /\ \E s \in DOMAIN sweeps :
              sweeps[s].pc = "delete" /\ sweeps[s].oldJobs[sweeps[s].i].id = j

\* C14 (as claimed): in every state every job row's type is one of metadata,
\* analyze, convert, slice, waveform.
C14_JobTypeInEnum ==
    \A j \in DOMAIN jobs :
        jobs[j].type \in {"metadata", "analyze", "convert", "slice", "waveform"}

\* C15 (as claimed): after every step every job's progress is within 0..100
\* and is 0 while the job is PENDING; a step that moves a job to PROCESSING is
\* the first update of an attempt on the job's delivered task and sets
\* progress to 10; and no step decreases a job's progress.
C15_ProgressBounded ==
    [][/\ \A j \in DOMAIN jobs' :
            /\ jobs'[j].progress \in 0 .. 100
            /\ jobs'[j].status = "PENDING" => jobs'[j].progress = 0
       /\ \A j \in DOMAIN jobs \cap DOMAIN jobs' :
            /\ jobs'[j].progress >= jobs[j].progress
            /\ (jobs[j].status # "PROCESSING" /\ jobs'[j].status = "PROCESSING") =>
                  /\ jobs'[j].progress = 10
                  /\ \E w \in DOMAIN worker :
                        /\ worker[w].pc = "update_processing"
                        /\ tasks[worker[w].task].processed >= 1
                        /\ tasks[worker[w].task].jobId = j]_vars

\* the call sequences that make up the operation of a job type: metadata
\* extraction (with its optional probe), deep analysis, conversion, slicing,
\* waveform rendering; a type outside the five gets metadata extraction
OperationCalls(jobType) ==
    CASE jobType \in {"metadata", "analyze"} ->
           {<<"extractMetadata">>, <<"extractMetadata", "getAudioInfo">>}
      [] jobType = "convert" -> {<<"convertAudio">>}
      [] jobType = "slice" -> {<<"sliceAudio">>}
      [] jobType = "waveform" -> {<<"generateWaveform">>}
      [] OTHER -> {<<"extractMetadata">>}

\* the task carries the parameters its job type requires
HasParameters(task) ==
    /\ task.jobType = "convert" => task.outputFormat # None
    /\ task.jobType = "slice" => task.startTime # None /\ task.endTime # None

\* C16 (as claimed): an attempt that has reached the switch on the job type,
\* on a task that carries the parameters its type requires, has called the
\* one operation of that type: never none, never another type's.
C16_ExactlyOneOperation ==
    \A w \in DOMAIN worker :
        (worker[w].dispatch # None /\ HasParameters(tasks[worker[w].task])) =>
            /\ Get(worker[w].dispatch) = tasks[worker[w].task].jobType
            /\ worker[w].calls \in OperationCalls(tasks[worker[w].task].jobType)

\* C17 (as claimed): the step in which a sweep returns without an error leaves
\* no row that was COMPLETED with completedAt before the sweep's cutoff when
\* the sweep was entered, and none of the output files of the jobs it deleted;
\* a sweep is entered by every start() that starts the service and by every
\* run of the interval's callback, by nothing else, and the step that enters
\* it leaves every request as it was.
C17_SweepRemovesOldCompleted ==
    [][/\ \A s \in DOMAIN sweeps :
            (/\ sweeps[s].pc \in {"find", "delete"}
             /\ sweeps'[s].pc = "done"
             /\ "error" \notin DOMAIN Get(sweeps'[s].ret)) =>
               /\ sweeps[s].matched \cap DOMAIN jobs' = {}
               /\ \A k \in DOMAIN sweeps[s].oldJobs :
                     OutputPaths(sweeps[s].oldJobs[k]) \cap disk' = {}
       /\ (service'.created > service.created \/ service'.fired > service.fired)
             <=> Len(sweeps') > Len(sweeps)
       /\ Len(sweeps') > Len(sweeps) =>
              /\ Len(sweeps') = Len(sweeps) + 1
              /\ sweeps'[Len(sweeps')].pc = "find"
              /\ sweeps'[Len(sweeps')].startedAt = now
              /\ uploads' = uploads /\ deletes' = deletes]_vars

\* C18: a PROCESSING job none of whose tasks is in the hands of a running
\* worker (its worker crashed inside the attempt) is left PROCESSING by every
\* step: no step of the server, of the sweep or of a worker's restart changes
\* its row, only a new delivery of its task by the queue leads to an update
\* (the one step that removes such a row is the job.delete of a sweep that had
\* selected it when it was COMPLETED, before a redelivery of its task); and a
\* task the queue has marked failed is never delivered again, so that from a
\* state where the task of such a job is failed the job is PROCESSING forever.
C18_CrashedJobStaysProcessing ==
    [][/\ \A j \in DOMAIN jobs :
            (/\ jobs[j].status = "PROCESSING"
             /\ \A w \in DOMAIN worker :
                   worker[w].pc \in {"idle", "down"} \/ tasks[worker[w].task].jobId # j) =>
                IF j \in DOMAIN jobs'
                THEN jobs'[j] = jobs[j]
                ELSE /\ jobs[j].completedAt # None
                     /\ \E s \in DOMAIN sweeps :
                           /\ sweeps[s].pc = "delete"
                           /\ sweeps[s].oldJobs[sweeps[s].i].id = j
                           /\ sweeps'[s] # sweeps[s]
       /\ \A t \in DOMAIN tasks :
            tasks[t].state = "failed" =>
                /\ tasks'[t] = tasks[t]
                /\ \A w \in DOMAIN worker : worker'[w].task = t => worker[w].task = t]_vars

\* the worker crashed twice inside its attempts on a job: the queue has marked
\* the task failed as stalled, the worker runs again, and the job is PROCESSING
C18_Witness ==
    \E j \in DOMAIN jobs : \E t \in DOMAIN tasks :
        /\ jobs[j].status = "PROCESSING"
        /\ tasks[t].jobId = j
        /\ tasks[t].state = "failed"
        /\ tasks[t].stalledCount = 2
        /\ tasks[t].attemptsMade = 0
        /\ \A w \in DOMAIN worker : worker[w].pc = "idle"

\* C19: when the server process dies between a sweep's unlink of a job's
\* output file and the deletion of that job's row (the row still as the sweep
\* selected it), the row is left COMPLETED with a result whose outputPath
\* names a file that does not exist.
C19_CrashLeavesDanglingOutput ==
    [][\A s \in DOMAIN sweeps :
         LET j == sweeps[s].oldJobs[sweeps[s].i].id IN
         (/\ sweeps[s].pc = "delete"
          /\ sweeps'[s].pc = "lost"
          /\ j \in DOMAIN jobs
          /\ jobs[j].status = "COMPLETED"
          /\ Get(jobs[j].completedAt) < sweeps[s].cutoffDate
          /\ OutputPaths(jobs[j]) # {}) =>
             /\ j \in DOMAIN jobs'
             /\ jobs'[j].status = "COMPLETED"
             /\ OutputPaths(jobs'[j]) # {}
             /\ OutputPaths(jobs'[j]) \cap disk' = {}]_vars

\* after such a crash: the sweep is lost, and a COMPLETED job's outputPath
\* names a file that is gone
C19_Witness ==
    /\ \E s \in DOMAIN sweeps : sweeps[s].pc = "lost"
    /\ \E j \in DOMAIN jobs :
          /\ jobs[j].status = "COMPLETED"
          /\ OutputPaths(jobs[j]) # {}
          /\ OutputPaths(jobs[j]) \cap disk = {}

\* the worker processes that are inside an attempt on task t
InFlight(t) == {w \in DOMAIN worker : worker[w].pc # "idle" /\ worker[w].task = t}

\* C20 (as claimed): with two worker processes on the queue, in every state a
\* task is in flight at one worker at most, and no job has attempts running at
\* two workers.
C20_OneWorkerPerTask ==
    /\ \A t \in DOMAIN tasks : Cardinality(InFlight(t)) <= 1
    /\ \A v, w \in DOMAIN worker :
          (/\ v # w
           /\ worker[v].pc # "idle"
           /\ worker[w].pc # "idle") =>
              tasks[worker[v].task].jobId # tasks[worker[w].task].jobId

\* C21 (as claimed): the step that answers a DELETE with 200 leaves neither
\* the original upload of the job's audio file nor the file named by the
\* outputPath of the result the handler loaded, and, when the job it loaded
\* was completed, no file at all derived from that upload; and the original
\* upload of a job whose DELETE was answered 200 never exists again.
C21_DeleteRemovesOriginal ==
    [][/\ \A d \in DOMAIN deletes :
            (/\ deletes[d].pc # "done"
             /\ deletes'[d].res # None
             /\ Get(deletes'[d].res).status = 200) =>
                LET job == Get(deletes[d].job)
                    audioFile == Get(deletes[d].audioFile)
                IN
                /\ audioFile.path \notin disk'
                /\ OutputPaths(job) \cap disk' = {}
                /\ job.result # None =>
                      \A p \in disk' : p.base[1] # audioFile.filename[1]
       /\ \A d \in DOMAIN deletes : \A u \in DOMAIN uploads :
            (/\ deletes[d].res # None
             /\ Get(deletes[d].res).status = 200
             /\ uploads[u].job # None
             /\ Get(uploads[u].job).id = deletes[d].jobId) =>
                Get(uploads[u].path) \notin disk']_vars

\* C22 (as claimed): every jobs row with status PENDING has a task carrying
\* its id that is waiting or active in the queue, or is the row of an upload
\* whose audioQueue.add has not been answered yet.
C22_PendingHasTask ==
    \A j \in DOMAIN jobs :
        jobs[j].status = "PENDING" =>
            \/ \E t \in DOMAIN tasks :
                  /\ tasks[t].jobId = j
                  /\ tasks[t].state \in {"waiting", "active"}
            \/ \E u \in DOMAIN uploads :
                  /\ uploads[u].pc = "enqueue"
                  /\ Get(uploads[u].job).id = j

\* C23 (as claimed): once a DELETE of a job was answered 200, no jobs row with
\* that id exists, and once the queue has finished the job's task (completed,
\* or failed after the last attempt) no file derived from the job's upload is
\* left in the upload directory.
C23_DeleteDuringProcessing ==
    \A d \in DOMAIN deletes :
        (deletes[d].res # None /\ Get(deletes[d].res).status = 200) =>
            /\ deletes[d].jobId \notin DOMAIN jobs
            /\ \A t \in DOMAIN tasks : \A u \in DOMAIN uploads :
                  (/\ tasks[t].jobId = deletes[d].jobId
                   /\ tasks[t].state \in {"completed", "failed"}
                   /\ uploads[u].job # None
                   /\ Get(uploads[u].job).id = deletes[d].jobId) =>
                      \A p \in disk : p.base[1] # Get(uploads[u].path).base[1]

\* C24: no two jobs rows reference the same audio file: every audio_files row,
\* and every audio file id, is referenced by at most one jobs row.
C24_OneJobPerAudioFile ==
    /\ \A f \in DOMAIN audioFiles :
          Cardinality({j \in DOMAIN jobs : jobs[j].audioFileId = f}) <= 1
    /\ \A j1, j2 \in DOMAIN jobs :
          jobs[j1].audioFileId = jobs[j2].audioFileId => j1 = j2

\* two uploads were stored: two audio_files rows, each with its own job
C24_Witness ==
    /\ Cardinality(DOMAIN audioFiles) = 2
    /\ Cardinality(DOMAIN jobs) = 2
    /\ \A f \in DOMAIN audioFiles :
          Cardinality({j \in DOMAIN jobs : jobs[j].audioFileId = f}) = 1

\* C25 (as claimed): a step of the cleanup sweep leaves the audio_files table and every
\* original upload as they were, removes only output files (never a stored
\* upload), removes only jobs rows that are COMPLETED and changes no other row;
\* the audio file of a removed job stays, with no job referencing it.
C25_SweepFrame ==
    [][sweeps' # sweeps =>
        /\ audioFiles' = audioFiles
        /\ \A u \in DOMAIN uploads :
              (uploads[u].path # None /\ Get(uploads[u].path) \in disk) =>
                  Get(uploads[u].path) \in disk'
        /\ \A p \in disk \ disk' : \A u \in DOMAIN uploads : uploads[u].path # Some(p)
        /\ disk' \subseteq disk
        /\ \A j \in DOMAIN jobs :
              IF j \in DOMAIN jobs'
              THEN jobs'[j] = jobs[j]
              ELSE /\ jobs[j].status = "COMPLETED"
                   /\ jobs[j].audioFileId \in DOMAIN audioFiles =>
                         /\ jobs[j].audioFileId \in DOMAIN audioFiles'
                         /\ \A k \in DOMAIN jobs' :
                               jobs'[k].audioFileId # jobs[j].audioFileId
        /\ DOMAIN jobs' \subseteq DOMAIN jobs]_vars

\* C26 (as claimed): when a sweep returns, its jobsDeleted is the number of
\* jobs rows the sweep removed: the selected jobs before the current one, all
\* removed by the sweep's own job.delete, plus the row the returning step removes.
C26_CountMatchesRemoved ==
    [][\A s \in DOMAIN sweeps :
         (sweeps[s].pc = "delete" /\ sweeps'[s].pc = "done") =>
            Get(sweeps'[s].ret).jobsDeleted =
                (sweeps[s].i - 1) + Cardinality(DOMAIN jobs \ DOMAIN jobs')]_vars

\* C27: at most one interval is installed at any time and intervalId names
\* it; a start() while running installs no timer and starts no sweep; a stop()
\* leaves no timer and intervalId null; a stop() when not running changes
\* nothing.
C27_AtMostOneTimer ==
    [][/\ Cardinality(service'.timers) <= 1
       /\ service'.timers = service'.intervalId
       /\ Len(service'.calls) > Len(service.calls) =>
            LET call == service'.calls[Len(service'.calls)] IN
            /\ (call = "start" /\ service.intervalId # None) =>
                  /\ service'.timers = service.timers
                  /\ service'.intervalId = service.intervalId
                  /\ service'.created = service.created
                  /\ sweeps' = sweeps
            /\ call = "stop" =>
                  /\ service'.timers = {}
                  /\ service'.intervalId = None
                  /\ sweeps' = sweeps
            /\ (call = "stop" /\ service.intervalId = None) =>
                  /\ service'.created = service.created
                  /\ service'.fired = service.fired]_vars

\* start() was called twice in a row: one timer is installed and one sweep
\* was started
C27_Witness ==
    /\ service.calls = <<"start", "start">>
    /\ Cardinality(service.timers) = 1
    /\ service.created = 1
    /\ Len(sweeps) = 1

\* the DELETE requests for a job id in a table of requests, those of them
\* whose findUnique found the row (they are in the handler still, or were
\* answered 200 or 500), and those answered 200
DeletesOf(reqs, j) == {d \in DOMAIN reqs : reqs[d].jobId = j}
DeletesFound(reqs, j) ==
    {d \in DeletesOf(reqs, j) :
        reqs[d].res = None \/ Get(reqs[d].res).status \in {200, 500}}
DeletesDone(reqs, j) ==
    {d \in DeletesOf(reqs, j) : reqs[d].res # None /\ Get(reqs[d].res).status = 200}

\* C28 (as claimed): of the DELETE requests for one job id at most one is
\* answered 200, and exactly one once two or more of them found the row and
\* all of those are answered; every other one is answered 404 or 500, with
\* code JOB_NOT_FOUND; after the 200 neither the jobs row nor its audio_files
\* row is left; and no step removes the jobs row on behalf of two requests.
C28_ConcurrentDeletes ==
    [][/\ \A j \in {deletes'[d].jobId : d \in DOMAIN deletes'} :
            /\ Cardinality(DeletesDone(deletes', j)) <= 1
            /\ (/\ Cardinality(DeletesFound(deletes', j)) >= 2
                /\ \A d \in DeletesFound(deletes', j) : deletes'[d].res # None) =>
                  Cardinality(DeletesDone(deletes', j)) = 1
            /\ \A d \in DeletesOf(deletes', j) \ DeletesDone(deletes', j) :
                  deletes'[d].res # None =>
                      /\ Get(deletes'[d].res).status \in {404, 500}
                      /\ Get(deletes'[d].res).body.code = "JOB_NOT_FOUND"
            /\ DeletesDone(deletes', j) # {} =>
                  /\ j \notin DOMAIN jobs'
                  /\ \A u \in DOMAIN uploads' :
                        (uploads'[u].job # None /\ Get(uploads'[u].job).id = j) =>
                            Get(uploads'[u].audioFile) \notin DOMAIN audioFiles'
       /\ \A j \in DOMAIN jobs \ DOMAIN jobs' :
            Cardinality({d \in DOMAIN deletes :
                            deletes[d].jobId = j /\ deletes'[d] # deletes[d]}) <= 1]_vars

\* an upload answered 201, and its job settled: the queue is done with its
\* task and the row's status is COMPLETED or FAILED
Accepted(u) ==
    /\ u \in DOMAIN uploads
    /\ uploads[u].res # None
    /\ Get(uploads[u].res).status = 201
Settled(u) ==
    /\ Accepted(u)
    /\ \E t \in DOMAIN tasks :
          /\ tasks[t].jobId = Get(uploads[u].job).id
          /\ tasks[t].state \in {"completed", "failed"}
    /\ Get(uploads[u].job).id \in DOMAIN jobs
    /\ jobs[Get(uploads[u].job).id].status \in {"COMPLETED", "FAILED"}

\* C29: with the queue delivering and the worker taking its steps, the job of
\* every upload answered 201 eventually has status COMPLETED or FAILED with
\* its task finished by the queue, and from then on keeps that status for good.
C29_EventuallySettled ==
    /\ \A u \in 1 .. MaxInputUploads : Accepted(u) ~> Settled(u)
    /\ [][\A u \in 1 .. MaxInputUploads :
             Settled(u) =>
                 /\ Get(uploads[u].job).id \in DOMAIN jobs'
                 /\ jobs'[Get(uploads[u].job).id].status =
                        jobs[Get(uploads[u].job).id].status]_vars

\* an accepted upload whose job failed once, was retried by the queue and is
\* COMPLETED
C29_Witness ==
    \E u \in DOMAIN uploads : \E t \in DOMAIN tasks :
        /\ Settled(u)
        /\ tasks[t].jobId = Get(uploads[u].job).id
        /\ tasks[t].state = "completed"
        /\ tasks[t].attemptsMade >= 1
        /\ jobs[tasks[t].jobId].status = "COMPLETED"

====
